---------------------------- MODULE Spec2Model ----------------------------
(***************************************************************************)
(* TripTrack: the trip catalog, the registration ledger and the requests   *)
(* that change them (src/trips/views.py, src/trips/models.py,              *)
(* src/trips/forms.py, src/accounts/views.py, src/accounts/forms.py,       *)
(* src/accounts/models.py).                                                *)
(*                                                                         *)
(* The database runs in autocommit mode (settings.py sets no               *)
(* ATOMIC_REQUESTS): every ORM statement of a view commits on its own, and *)
(* only the statements inside `with transaction.atomic()` commit together. *)
(* A request is a process: it holds a slot of `req`, and each of its       *)
(* database statements is one step, so that the statements of concurrent   *)
(* requests interleave exactly where the code lets them.                   *)
(***************************************************************************)
EXTENDS Integers, FiniteSets, Sequences, TLC

\* ------------------------------------------------------------------ bounds
NUsers == 2
NTrips == 2
MaxCap == 1
MaxReq == 2
NForms == 2
MaxRegId == 3

Users == 1..NUsers
Trips == 1..NTrips
Reqs == 1..MaxReq
Forms == 1..NForms

\* The one staff account of the bounded model (User.is_staff is set only by
\* Django's admin, which the model does not cover).
StaffUsers == {1}

VARIABLES
    trips,      \* Trip table: id -> row (exists = FALSE: no such row)
    nextTripId, \* the Trip primary-key sequence
    regs,       \* Registration table: a set of rows
    nextRegId,  \* the Registration primary-key sequence
    users,      \* User table: id -> row
    profiles,   \* Profile table: user id -> row
    mails,      \* messages handed to the mail backend and delivered
    req         \* request slot -> the request it runs (its position and locals)

vars == <<trips, nextTripId, regs, nextRegId, users, profiles, mails, req>>

\* ------------------------------------------------------------ model rows

\* Trip (models.py 7-15): the fields the views read.  name, times, pickup
\* point and details are carried by no rule of the views; date orders the
\* catalog and is the trip's id here (a later trip has a later date).
NoTrip == [id |-> 0, exists |-> FALSE, capacity |-> 0, is_active |-> FALSE]

TripDate(t) == t

NoUser == [email |-> 0, email_verified |-> FALSE, is_staff |-> FALSE,
           first_name |-> 0, last_name |-> 0]

NoProfile == [first_name |-> 0, last_name |-> 0, phone_number |-> 0,
              date_of_birth |-> 0]

\* What a valid RegistrationForm number f cleans to (forms.py 23-72); 0 is
\* the blank value of a field.
FormData(f) == [first_name |-> 10 + f, last_name |-> 20 + f, phone |-> 30 + f,
                dob |-> 40 + f,
                park_choice |-> IF f % 2 = 1 THEN "theme" ELSE "water"]

\* What a TripForm cleans to (forms.py 76-105), as far as the views read it.
NoTripForm == [capacity |-> 0, is_active |-> FALSE]

\* A slot that runs nothing and has run nothing.
IdleReq == [pc |-> "idle", kind |-> "none", user |-> 0, method |-> "-",
            form |-> 0, target |-> 0, luser |-> NoUser, trip |-> NoTrip,
            profile |-> NoProfile, reg |-> 0, outcome |-> "none",
            warning |-> FALSE, tform |-> NoTripForm,
            mode |-> "-", q |-> 0, only |-> "", order |-> "-",
            post |-> {}, data |-> {}, rows |-> {}, todo |-> {},
            action |-> "-", new_email |-> 0,
            updated |-> {}, emailed |-> {}]

\* A slot whose request has ended: what the response tells the client; the
\* request's locals are gone.
Ended(kind, u, target, regId, outcome, warning) ==
    [IdleReq EXCEPT !.pc = "done", !.kind = kind, !.user = u,
                    !.target = target, !.reg = regId, !.outcome = outcome,
                    !.warning = warning]


\* ------------------------------------------------------------- helpers

\* The lookup without its is_active filter: the latest trip there is.
active_trip_any ==
    IF \A t \in Trips : ~trips[t].exists THEN 0
    ELSE CHOOSE t \in Trips :
            trips[t].exists /\ \A o \in Trips : trips[o].exists => TripDate(o) <= TripDate(t)

\* views.py 26-28: Trip.objects.filter(is_active=True).order_by("-date").first();
\* 0 stands for None.
ActiveTrips == {t \in Trips : trips[t].exists /\ trips[t].is_active}

active_trip ==
    IF ActiveTrips = {} THEN 0
    ELSE CHOOSE t \in ActiveTrips : \A o \in ActiveTrips : TripDate(o) <= TripDate(t)

\* A staff test that lets everyone through.
is_staff_anyone(user) == TRUE

\* views.py 31-32
is_staff(user) == user.is_staff

\* The verification check left out.
EmailVerified_unchecked(user) == TRUE

\* views.py 126: getattr(request.user, "email_verified", False)
EmailVerified(user) == user.email_verified

\* A count that leaves the cancelled rows out.
seats_taken_not_cancelled(t) ==
    Cardinality({g \in regs : g.trip = t /\ g.status # "cancelled"})

\* models.py 25-28 and views.py 35-40: the count of the trip's rows, whatever
\* their status.
seats_taken(t) == Cardinality({g \in regs : g.trip = t})

Max(a, b) == IF a >= b THEN a ELSE b

\* models.py 30-32 (Trip.seats_left) on a loaded trip object: its capacity is
\* the one that was loaded, the count is queried now.
Trip_seats_left(trip) == Max(trip.capacity - seats_taken(trip.id), 0)

\* models.py 34-36
Trip_is_full(trip) == Trip_seats_left(trip) <= 0

\* views.py 43-44
seats_left(trip) == Max(trip.capacity - seats_taken(trip.id), 0)

\* views.py 47-49: getattr(trip, "is_full", None) is True or
\* _seats_left(trip) <= 0
is_full(trip) == Trip_is_full(trip) \/ seats_left(trip) <= 0

\* views.py 137: Registration.objects.filter(trip=trip, user=request.user).exists()
Registered(t, u) == \E g \in regs : g.trip = t /\ g.user = u

\* A table without the unique constraint.
UniqueViolation_dropped(t, u) == FALSE

\* models.py 77-78: unique_together (trip, user), enforced by the database on
\* INSERT.
UniqueViolation(t, u) == \E g \in regs : g.trip = t /\ g.user = u

\* A table without the foreign key.
ForeignKeyViolation_dropped(t) == FALSE

\* models.py 55: the trip foreign key, enforced by the database.
ForeignKeyViolation(t) == ~trips[t].exists

\* A loaded Trip object.
LoadTrip(t) == [id |-> t, exists |-> trips[t].exists,
                capacity |-> trips[t].capacity, is_active |-> trips[t].is_active]

\* The inputs of a register request: a GET, or a POST of form data number
\* `form`; form 0 is a POST that RegistrationForm.is_valid() rejects.
RegisterInputs ==
    {[method |-> "GET", form |-> 0]} \cup
    {[method |-> "POST", form |-> f] : f \in 0..NForms}

\* --------------------------------------------------------------- Init

\* A database the program can be in before the requests of interest start:
\* staff created the first k trips and left at most one of them active, the
\* users signed up (each with the profile the post_save signal creates,
\* accounts/models.py 46-49; signup stores no names) and verified their
\* address or not, and nobody has registered yet.
NoTripRow == [exists |-> FALSE, capacity |-> 0, is_active |-> FALSE]

TypeOK ==
    /\ nextTripId \in 1..(NTrips + 1)
    /\ nextRegId \in 1..(MaxRegId + 1)
    /\ \A t \in Trips : trips[t].capacity \in 0..MaxCap
    /\ \A g \in regs : g.trip \in Trips /\ g.user \in Users /\ g.id < nextRegId

InitWith(k) ==
    /\ \E cap \in [1..k -> 0..MaxCap], act \in 0..k :
          trips = [t \in Trips |->
                      IF t <= k
                      THEN [exists |-> TRUE, capacity |-> cap[t],
                            is_active |-> (t = act)]
                      ELSE NoTripRow]
    /\ nextTripId = k + 1
    /\ regs = {}
    /\ nextRegId = 1
    /\ \E v \in [Users -> BOOLEAN] :
          users = [u \in Users |->
                      [email |-> u, email_verified |-> v[u],
                       is_staff |-> (u \in StaffUsers),
                       first_name |-> 0, last_name |-> 0]]
    /\ profiles = [u \in Users |-> NoProfile]
    /\ mails = {}
    /\ req = [r \in Reqs |-> IdleReq]

Init == \E k \in 0..NTrips : InitWith(k)


\* ------------------------------------------------------------ register
\* views.py 113-252.  One action per database statement of the view; the
\* local computation that follows a statement belongs to its action.

db == <<trips, nextTripId, regs, nextRegId, users, profiles, mails>>

\* 113-128: login_required loads request.user; an unverified user is sent to
\* the resend-verification page.
RegisterStart(r, u, in) ==
    /\ req[r].pc = "idle"
    /\ req' = [req EXCEPT ![r] =
                 IF ~EmailVerified(users[u])
                 THEN Ended("register", u, 0, 0, "NOT_VERIFIED", FALSE)
                 ELSE [IdleReq EXCEPT !.pc = "reg_active", !.kind = "register",
                                      !.user = u, !.method = in.method,
                                      !.form = in.form, !.luser = users[u]]]
    /\ UNCHANGED db

\* 130-134
RegisterActiveTrip(r) ==
    /\ req[r].pc = "reg_active"
    /\ LET t == active_trip IN
       req' = [req EXCEPT ![r] =
                 IF t = 0
                 THEN Ended("register", req[r].user, 0, 0, "NO_ACTIVE_TRIP", FALSE)
                 ELSE [req[r] EXCEPT !.pc = "reg_exists", !.trip = LoadTrip(t)]]
    /\ UNCHANGED db

\* 136-138
RegisterExists(r) ==
    /\ req[r].pc = "reg_exists"
    /\ req' = [req EXCEPT ![r] =
                 IF Registered(req[r].trip.id, req[r].user)
                 THEN Ended("register", req[r].user, req[r].trip.id, 0,
                            "ALREADY_REGISTERED", FALSE)
                 ELSE [req[r] EXCEPT !.pc = "reg_precheck"]]
    /\ UNCHANGED db

\* 140-143 with 47-49: _is_full(trip) first reads the model property
\* (one COUNT query) ...
RegisterPrecheck(r) ==
    /\ req[r].pc = "reg_precheck"
    /\ req' = [req EXCEPT ![r] =
                 IF Trip_is_full(req[r].trip)
                 THEN Ended("register", req[r].user, req[r].trip.id, 0, "TRIP_FULL", FALSE)
                 ELSE [req[r] EXCEPT !.pc = "reg_precheck2"]]
    /\ UNCHANGED db

\* ... and, when that is not True, _seats_left(trip) <= 0 (a second COUNT).
RegisterPrecheck2(r) ==
    /\ req[r].pc = "reg_precheck2"
    /\ req' = [req EXCEPT ![r] =
                 IF seats_left(req[r].trip) <= 0
                 THEN Ended("register", req[r].user, req[r].trip.id, 0, "TRIP_FULL", FALSE)
                 ELSE [req[r] EXCEPT !.pc = "reg_profile"]]
    /\ UNCHANGED db

\* 145-163 and 245-252: request.user.profile is loaded; a GET renders the
\* prefilled form, a POST that does not validate renders its errors.
RegisterProfile(r) ==
    /\ req[r].pc = "reg_profile"
    /\ req' = [req EXCEPT ![r] =
                 IF req[r].method = "GET"
                 THEN Ended("register", req[r].user, req[r].trip.id, 0, "FORM", FALSE)
                 ELSE IF req[r].form = 0
                 THEN Ended("register", req[r].user, req[r].trip.id, 0,
                            "VALIDATION_ERROR", FALSE)
                 ELSE [req[r] EXCEPT !.pc = "reg_refresh",
                                !.profile = profiles[req[r].user]]]
    /\ UNCHANGED db

\* 165: trip.refresh_from_db() reloads every field of the trip; it raises
\* Trip.DoesNotExist when the row is gone.
RegisterRefresh(r) ==
    /\ req[r].pc = "reg_refresh"
    /\ req' = [req EXCEPT ![r] =
                 IF ~trips[req[r].trip.id].exists
                 THEN Ended("register", req[r].user, req[r].trip.id, 0, "DoesNotExist", FALSE)
                 ELSE [req[r] EXCEPT !.pc = "reg_recheck",
                                !.trip = LoadTrip(req[r].trip.id)]]
    /\ UNCHANGED db

\* 166-168: _is_full(trip) again, the model property ...
RegisterRecheck(r) ==
    /\ req[r].pc = "reg_recheck"
    /\ req' = [req EXCEPT ![r] =
                 IF Trip_is_full(req[r].trip)
                 THEN Ended("register", req[r].user, req[r].trip.id, 0,
                            "SEATS_EXHAUSTED", FALSE)
                 ELSE [req[r] EXCEPT !.pc = "reg_recheck2"]]
    /\ UNCHANGED db

\* ... and the helper's own count.
RegisterRecheck2(r) ==
    /\ req[r].pc = "reg_recheck2"
    /\ req' = [req EXCEPT ![r] =
                 IF seats_left(req[r].trip) <= 0
                 THEN Ended("register", req[r].user, req[r].trip.id, 0,
                            "SEATS_EXHAUSTED", FALSE)
                 ELSE [req[r] EXCEPT !.pc = "reg_txn"]]
    /\ UNCHANGED db

\* The Registration row of 172-176 (RegistrationForm.save, forms.py 66-72;
\* the defaults of models.py 63-70).
NewRegistration(id, t, u, email, data) ==
    [id |-> id, trip |-> t, user |-> u,
     full_name |-> <<data.first_name, data.last_name>>,
     phone |-> data.phone, dob |-> data.dob, park_choice |-> data.park_choice,
     status |-> "pending", email_used |-> email,
     boarded_outbound |-> FALSE, boarded_return |-> FALSE]

\* 184-192: request.user.save(update_fields=[the names that differ from the
\* loaded user]) writes those columns only.
SaveUserNames(row, luser, data) ==
    [row EXCEPT
        !.first_name = IF luser.first_name # data.first_name
                       THEN data.first_name ELSE @,
        !.last_name = IF luser.last_name # data.last_name
                      THEN data.last_name ELSE @]

\* 194-205: profile.save() writes every column of the loaded profile, with
\* the form's values where they differ; nothing is written when none does.
UpdatedProfile(p, data) ==
    [first_name |-> data.first_name, last_name |-> data.last_name,
     phone_number |-> IF data.phone # 0 THEN data.phone ELSE p.phone_number,
     date_of_birth |-> IF data.dob # 0 THEN data.dob ELSE p.date_of_birth]

\* The atomic block with the registrant's mail sent from inside it, before
\* the commit: the mail is out even when the INSERT is refused.
RegisterSave_mail_before_commit(r) ==
    /\ req[r].pc = "reg_txn"
    /\ nextRegId <= MaxRegId
    /\ LET q == req[r]
           data == FormData(q.form)
       IN  /\ mails' = mails \cup {<<"registered", nextRegId>>}
           /\ IF UniqueViolation(q.trip.id, q.user) \/ ForeignKeyViolation(q.trip.id)
              THEN /\ req' = [req EXCEPT ![r] =
                        Ended("register", q.user, q.trip.id, 0,
                              "IntegrityError_unique", FALSE)]
                   /\ UNCHANGED <<trips, nextTripId, regs, nextRegId, users,
                                   profiles>>
              ELSE /\ regs' = regs \cup
                        {NewRegistration(nextRegId, q.trip.id, q.user,
                                         q.luser.email, data)}
                   /\ nextRegId' = nextRegId + 1
                   /\ users' = [users EXCEPT ![q.user] =
                                   SaveUserNames(@, q.luser, data)]
                   /\ profiles' = [profiles EXCEPT ![q.user] =
                                      UpdatedProfile(q.profile, data)]
                   /\ req' = [req EXCEPT ![r] =
                                 [req[r] EXCEPT !.pc = "reg_mail",
                                                !.reg = nextRegId]]
                   /\ UNCHANGED <<trips, nextTripId>>

\* 170-205: the atomic block.  Its statements commit together, or none does
\* when the INSERT raises IntegrityError, which the view does not catch.
RegisterSave(r) ==
    /\ req[r].pc = "reg_txn"
    /\ nextRegId <= MaxRegId
    /\ LET q == req[r]
           data == FormData(q.form)
       IN  IF UniqueViolation(q.trip.id, q.user)
           THEN /\ req' = [req EXCEPT ![r] =
                     Ended("register", q.user, q.trip.id, 0,
                           "IntegrityError_unique", FALSE)]
                /\ UNCHANGED db
           ELSE IF ForeignKeyViolation(q.trip.id)
           THEN /\ req' = [req EXCEPT ![r] =
                     Ended("register", q.user, q.trip.id, 0,
                           "IntegrityError_fk", FALSE)]
                /\ UNCHANGED db
           ELSE /\ regs' = regs \cup
                     {NewRegistration(nextRegId, q.trip.id, q.user,
                                      q.luser.email, data)}
                /\ nextRegId' = nextRegId + 1
                /\ users' = [users EXCEPT ![q.user] =
                                SaveUserNames(@, q.luser, data)]
                /\ profiles' = [profiles EXCEPT ![q.user] =
                                   IF UpdatedProfile(q.profile, data) # q.profile
                                   THEN UpdatedProfile(q.profile, data) ELSE @]
                /\ req' = [req EXCEPT ![r] =
                              [req[r] EXCEPT !.pc = "reg_mail", !.reg = nextRegId]]
                /\ UNCHANGED <<trips, nextTripId, mails>>

\* How the two send_mail calls of 207-241 can end: the registrant's mail is
\* delivered or raises; the organizer's is sent only when EMAIL_HOST_USER is
\* set and the first did not raise, and fails silently.
MailResults ==
    {[registrant |-> FALSE, organizer |-> "skipped"]} \cup
    {[registrant |-> TRUE, organizer |-> o] : o \in {"unset", "sent", "failed"}}

\* The mails sent inside the atomic block and not guarded: a registrant mail
\* that raises rolls the transaction back and ends the request in error.
RegisterMail_in_txn(r, res) ==
    /\ req[r].pc = "reg_mail"
    /\ IF res.registrant
       THEN /\ mails' = mails \cup {<<"registered", req[r].reg>>}
            /\ regs' = regs
            /\ req' = [req EXCEPT ![r] =
                        Ended("register", req[r].user, req[r].trip.id,
                              req[r].reg, "REGISTERED", FALSE)]
       ELSE /\ mails' = mails
            /\ regs' = {g \in regs : g.id # req[r].reg}
            /\ req' = [req EXCEPT ![r] =
                        Ended("register", req[r].user, req[r].trip.id,
                              req[r].reg, "MailError", FALSE)]
    /\ UNCHANGED <<trips, nextTripId, nextRegId, users, profiles>>

\* 207-244: the mails, outside the atomic block; an exception becomes a
\* warning message and the request ends as a success either way.
RegisterMail(r, res) ==
    /\ req[r].pc = "reg_mail"
    /\ mails' = mails
          \cup (IF res.registrant THEN {<<"registered", req[r].reg>>} ELSE {})
          \cup (IF res.organizer = "sent" THEN {<<"organizer", req[r].reg>>} ELSE {})
    /\ req' = [req EXCEPT ![r] =
                 Ended("register", req[r].user, req[r].trip.id, req[r].reg, "REGISTERED",
                       ~res.registrant)]
    /\ UNCHANGED <<trips, nextTripId, regs, nextRegId, users, profiles>>

RegisterStep(r) ==
    \/ RegisterActiveTrip(r)
    \/ RegisterExists(r)
    \/ RegisterPrecheck(r)
    \/ RegisterPrecheck2(r)
    \/ RegisterProfile(r)
    \/ RegisterRefresh(r)
    \/ RegisterRecheck(r)
    \/ RegisterRecheck2(r)
    \/ RegisterSave(r)
    \/ \E res \in MailResults : RegisterMail(r, res)



\* ---------------------------------------------------------- staff: trips
\* Every staff view is wrapped in user_passes_test(_is_staff) (views.py
\* 341, 357, 482, 504, 721): a user who is not staff is redirected to the
\* login page before the view runs.

\* The UPDATE without its exclude(): every trip is demoted.
DemoteOthers_all(rows, keep) ==
    [t \in Trips |-> IF rows[t].exists
                     THEN [rows[t] EXCEPT !.is_active = FALSE]
                     ELSE rows[t]]

\* Trip.objects.exclude(pk=keep).update(is_active=False): one UPDATE statement.
DemoteOthers(rows, keep) ==
    [t \in Trips |-> IF t # keep /\ rows[t].exists
                     THEN [rows[t] EXCEPT !.is_active = FALSE]
                     ELSE rows[t]]

\* Model.save() of a loaded or form-built trip: an UPDATE of every column of
\* the row with that primary key, and an INSERT of the row when the UPDATE
\* matched none.
SaveTrip(rows, t, capacity, active) ==
    [rows EXCEPT ![t] = [exists |-> TRUE, capacity |-> capacity,
                         is_active |-> active]]

\* The inputs of a TripForm view: a GET, a POST that does not validate, or a
\* POST of valid data (clean_capacity, forms.py 101-105: capacity >= 0).
TripFormInputs ==
    {[method |-> "GET", valid |-> FALSE, data |-> NoTripForm],
     [method |-> "POST", valid |-> FALSE, data |-> NoTripForm]} \cup
    {[method |-> "POST", valid |-> TRUE,
      data |-> [capacity |-> c, is_active |-> a]] : c \in 0..MaxCap, a \in BOOLEAN}

\* 341-354, up to and including form.save(): the INSERT of the new trip.
TripCreateStart(r, u, in) ==
    /\ req[r].pc = "idle"
    /\ IF ~is_staff(users[u])
       THEN /\ req' = [req EXCEPT ![r] =
                        Ended("trip_create", u, 0, 0, "LOGIN_REDIRECT", FALSE)]
            /\ UNCHANGED db
       ELSE IF in.method = "GET"
       THEN /\ req' = [req EXCEPT ![r] = Ended("trip_create", u, 0, 0, "FORM", FALSE)]
            /\ UNCHANGED db
       ELSE IF ~in.valid
       THEN /\ req' = [req EXCEPT ![r] =
                        Ended("trip_create", u, 0, 0, "VALIDATION_ERROR", FALSE)]
            /\ UNCHANGED db
       ELSE /\ nextTripId <= NTrips
            /\ trips' = SaveTrip(trips, nextTripId, in.data.capacity,
                                 in.data.is_active)
            /\ nextTripId' = nextTripId + 1
            /\ req' = [req EXCEPT ![r] =
                        IF in.data.is_active
                        THEN [IdleReq EXCEPT !.pc = "tc_demote",
                                             !.kind = "trip_create",
                                             !.user = u, !.target = nextTripId]
                        ELSE Ended("trip_create", u, nextTripId, 0, "OK", FALSE)]
            /\ UNCHANGED <<regs, nextRegId, users, profiles, mails>>

\* 347-351: the follow-up UPDATE that demotes the other trips.
TripCreateDemote(r) ==
    /\ req[r].pc = "tc_demote"
    /\ trips' = DemoteOthers(trips, req[r].target)
    /\ req' = [req EXCEPT ![r] =
                 Ended("trip_create", req[r].user, req[r].target, 0, "OK", FALSE)]
    /\ UNCHANGED <<nextTripId, regs, nextRegId, users, profiles, mails>>

\* 357-360: get_object_or_404 loads the trip.
SetActiveStart(r, u, t) ==
    /\ req[r].pc = "idle"
    /\ req' = [req EXCEPT ![r] =
                 IF ~is_staff(users[u])
                 THEN Ended("trip_set_active", u, t, 0, "LOGIN_REDIRECT", FALSE)
                 ELSE IF ~trips[t].exists
                 THEN Ended("trip_set_active", u, t, 0, "404", FALSE)
                 ELSE [IdleReq EXCEPT !.pc = "sa_save",
                                      !.kind = "trip_set_active", !.user = u,
                                      !.target = t, !.trip = LoadTrip(t)]]
    /\ UNCHANGED db

\* 361-362: trip.is_active = True; trip.save() writes the loaded trip back.
SetActiveSave(r) ==
    /\ req[r].pc = "sa_save"
    /\ trips' = SaveTrip(trips, req[r].target, req[r].trip.capacity, TRUE)
    /\ req' = [req EXCEPT ![r] =
                 [req[r] EXCEPT !.pc = "sa_demote", !.trip.is_active = TRUE]]
    /\ UNCHANGED <<nextTripId, regs, nextRegId, users, profiles, mails>>

\* 363-365
SetActiveDemote(r) ==
    /\ req[r].pc = "sa_demote"
    /\ trips' = DemoteOthers(trips, req[r].target)
    /\ req' = [req EXCEPT ![r] =
                 Ended("trip_set_active", req[r].user, req[r].target, 0, "OK", FALSE)]
    /\ UNCHANGED <<nextTripId, regs, nextRegId, users, profiles, mails>>

\* 482-488 and 495-501: get_object_or_404, then the form is bound.
TripEditStart(r, u, t, in) ==
    /\ req[r].pc = "idle"
    /\ req' = [req EXCEPT ![r] =
                 IF ~is_staff(users[u])
                 THEN Ended("trip_edit", u, t, 0, "LOGIN_REDIRECT", FALSE)
                 ELSE IF ~trips[t].exists
                 THEN Ended("trip_edit", u, t, 0, "404", FALSE)
                 ELSE IF in.method = "GET"
                 THEN Ended("trip_edit", u, t, 0, "FORM", FALSE)
                 ELSE IF ~in.valid
                 THEN Ended("trip_edit", u, t, 0, "VALIDATION_ERROR", FALSE)
                 ELSE [IdleReq EXCEPT !.pc = "te_save", !.kind = "trip_edit",
                                      !.user = u, !.target = t,
                                      !.trip = LoadTrip(t), !.tform = in.data]]
    /\ UNCHANGED db

\* 489: form.save() writes every field of the form, which are all columns
\* of the trip.
TripEditSave(r) ==
    /\ req[r].pc = "te_save"
    /\ trips' = SaveTrip(trips, req[r].target, req[r].tform.capacity,
                         req[r].tform.is_active)
    /\ req' = [req EXCEPT ![r] =
                 IF req[r].tform.is_active
                 THEN [req[r] EXCEPT !.pc = "te_demote"]
                 ELSE Ended("trip_edit", req[r].user, req[r].target, 0, "OK", FALSE)]
    /\ UNCHANGED <<nextTripId, regs, nextRegId, users, profiles, mails>>

\* 490-494
TripEditDemote(r) ==
    /\ req[r].pc = "te_demote"
    /\ trips' = DemoteOthers(trips, req[r].target)
    /\ req' = [req EXCEPT ![r] =
                 Ended("trip_edit", req[r].user, req[r].target, 0, "OK", FALSE)]
    /\ UNCHANGED <<nextTripId, regs, nextRegId, users, profiles, mails>>

\* 504-507
TripDeleteStart(r, u, t) ==
    /\ req[r].pc = "idle"
    /\ req' = [req EXCEPT ![r] =
                 IF ~is_staff(users[u])
                 THEN Ended("trip_delete", u, t, 0, "LOGIN_REDIRECT", FALSE)
                 ELSE IF ~trips[t].exists
                 THEN Ended("trip_delete", u, t, 0, "404", FALSE)
                 ELSE [IdleReq EXCEPT !.pc = "td_delete", !.kind = "trip_delete",
                                      !.user = u, !.target = t]]
    /\ UNCHANGED db

\* 508-511: trip.delete() removes the trip and, by on_delete=CASCADE
\* (models.py 55), its registrations, in one transaction.
TripDeleteRun(r) ==
    /\ req[r].pc = "td_delete"
    /\ trips' = [trips EXCEPT ![req[r].target] = NoTripRow]
    /\ regs' = {g \in regs : g.trip # req[r].target}
    /\ req' = [req EXCEPT ![r] =
                 Ended("trip_delete", req[r].user, req[r].target, 0, "OK", FALSE)]
    /\ UNCHANGED <<nextTripId, nextRegId, users, profiles, mails>>

\* 721-727: the active trip is looked up.
RegistrationDeleteStart(r, u, g) ==
    /\ req[r].pc = "idle"
    /\ req' = [req EXCEPT ![r] =
                 IF ~is_staff(users[u])
                 THEN Ended("registration_delete", u, 0, g, "LOGIN_REDIRECT", FALSE)
                 ELSE IF active_trip = 0
                 THEN Ended("registration_delete", u, 0, g, "NO_ACTIVE_TRIP", FALSE)
                 ELSE [IdleReq EXCEPT !.pc = "rd_load",
                                      !.kind = "registration_delete",
                                      !.user = u, !.reg = g,
                                      !.trip = LoadTrip(active_trip)]]
    /\ UNCHANGED db

\* 729-730: get_object_or_404(Registration, pk=reg_id, trip=trip)
RegistrationDeleteLoad(r) ==
    /\ req[r].pc = "rd_load"
    /\ req' = [req EXCEPT ![r] =
                 IF \E g \in regs : g.id = req[r].reg /\ g.trip = req[r].trip.id
                 THEN [req[r] EXCEPT !.pc = "rd_delete"]
                 ELSE Ended("registration_delete", req[r].user, req[r].trip.id,
                            req[r].reg, "404", FALSE)]
    /\ UNCHANGED db

\* 731-733: reg.delete() deletes the row with that primary key.
RegistrationDeleteRun(r) ==
    /\ req[r].pc = "rd_delete"
    /\ regs' = {g \in regs : g.id # req[r].reg}
    /\ req' = [req EXCEPT ![r] =
                 Ended("registration_delete", req[r].user, req[r].trip.id,
                       req[r].reg, "OK", FALSE)]
    /\ UNCHANGED <<trips, nextTripId, nextRegId, users, profiles, mails>>

\* ------------------------------------------------------- staff: headcount
\* views.py 563-715.

\* models.py 47-51
STATUS == {"pending", "confirmed", "cancelled"}

\* The search texts of the bounded model: 0 is the blank text, the others
\* are an email address or a first name.  A stored value is one token, so
\* `icontains` is equality with it.
SearchTexts == {0} \cup Users \cup {FormData(f).first_name : f \in Forms}

\* 596-600: Q(full_name__icontains=q) | Q(user__email__icontains=q) |
\* Q(phone__icontains=q); the email is the user's current one (a join).
Matches(g, q) ==
    \/ q = g.full_name[1]
    \/ q = g.full_name[2]
    \/ q = users[g.user].email
    \/ q = g.phone

\* 574, 579, 584-585
Mode(m) == IF m \in {"out", "ret"} THEN m ELSE "out"

\* 603-606: filter(boarded_outbound=False if mode == "out" else
\* Q(boarded_return=False)).  The conditional expression is the value of the
\* one keyword argument boarded_outbound: in return mode the column
\* boarded_outbound is compared with the condition boarded_return = False.
Unchecked(g, mode) ==
    IF mode = "out" THEN g.boarded_outbound = FALSE
                    ELSE g.boarded_outbound = (g.boarded_return = FALSE)

\* 588-606: the rows of the filtered view.
Visible(t, mode, q, only) ==
    {g \in regs : /\ g.trip = t
                  /\ g.status \in {"pending", "paid"}
                  /\ (q # 0 => Matches(g, q))
                  /\ (only = "unchecked" => Unchecked(g, mode))}

\* A row of list(regs_qs) with its select_related user (588-592, 610).
LoadReg(g) == [reg |-> g, email |-> users[g.user].email]

\* 623-624, 637-638: the flag of the current leg on a loaded row.
Flag(g, mode) == IF mode = "out" THEN g.boarded_outbound ELSE g.boarded_return

\* 633-634: request.POST.get(key) == "on"; `post` holds the ids whose
\* checkbox of the current leg is on.
new_val(post, id) == id \in post

\* A notification on every change of the flag.
send_email_on_change(old, new) == TRUE

\* 637 and 662: send_email = (not r.boarded_...) and new_val
send_email(old, new) == ~old /\ new

\* 609: order_by("-full_name" if order == "name_desc" else "full_name");
\* a precedes b in the list (rows of equal name come in either order).
NameLess(a, b) == a[1] < b[1] \/ (a[1] = b[1] /\ a[2] < b[2])

Before(a, b, order) ==
    IF order = "name_desc" THEN NameLess(b.full_name, a.full_name)
                           ELSE NameLess(a.full_name, b.full_name)

\* The response of a headcount POST: the redirect carries the controls
\* (690-698), the message the two counters (687).
HeadcountEnded(q, outcome, updated, emailed) ==
    [IdleReq EXCEPT !.pc = "done", !.kind = "headcount", !.user = q.user,
                    !.method = q.method, !.target = q.trip.id,
                    !.outcome = outcome, !.mode = q.mode, !.q = q.q,
                    !.only = q.only, !.order = q.order,
                    !.updated = updated, !.emailed = emailed]

\* The inputs of a headcount request.
HeadcountInputs ==
    {[method |-> "GET", mode |-> m, q |-> q, only |-> o, order |-> d,
      post |-> {}] :
        m \in {"out", "ret", "x"}, q \in SearchTexts,
        o \in {"", "unchecked"}, d \in {"name_asc", "name_desc"}} \cup
    {[method |-> "POST", mode |-> m, q |-> q, only |-> o, order |-> d,
      post |-> p] :
        m \in {"out", "ret", "x"}, q \in SearchTexts,
        o \in {"", "unchecked"}, d \in {"name_asc", "name_desc"},
        p \in SUBSET (1..MaxRegId)}

\* 563-585: the staff test, the active-trip lookup and the controls.
HeadcountStart(r, u, in) ==
    /\ req[r].pc = "idle"
    /\ req' = [req EXCEPT ![r] =
                 IF ~is_staff(users[u])
                 THEN Ended("headcount", u, 0, 0, "LOGIN_REDIRECT", FALSE)
                 ELSE IF active_trip = 0
                 THEN Ended("headcount", u, 0, 0, "NO_ACTIVE_TRIP", FALSE)
                 ELSE [IdleReq EXCEPT !.pc = "hc_list", !.kind = "headcount",
                                      !.user = u, !.method = in.method,
                                      !.trip = LoadTrip(active_trip),
                                      !.mode = Mode(in.mode), !.q = in.q,
                                      !.only = in.only, !.order = in.order,
                                      !.post = in.post]]
    /\ UNCHANGED db

\* 610: regs = list(regs_qs) evaluates the filtered query once; the counts
\* of 613-626 read the table and feed the page only.  A GET renders the
\* rows; a POST goes on to the rows whose flag differs from its checkbox
\* (632-638: the others cause no statement).
HeadcountList(r) ==
    /\ req[r].pc = "hc_list"
    /\ LET q == req[r]
           view == {LoadReg(g) : g \in Visible(q.trip.id, q.mode, q.q, q.only)}
           todo == {w.reg.id : w \in
                      {w \in view : new_val(q.post, w.reg.id) # Flag(w.reg, q.mode)}}
       IN  req' = [req EXCEPT ![r] =
                     IF q.method = "GET"
                     THEN [req[r] EXCEPT !.pc = "done", !.outcome = "PAGE",
                                         !.rows = view]
                     ELSE IF todo = {}
                     THEN HeadcountEnded(q, "OK", {}, {})
                     ELSE [req[r] EXCEPT !.pc = "hc_save", !.rows = view,
                                         !.todo = todo]]
    /\ UNCHANGED db

\* r.save(update_fields=[...]) writing every column of the loaded row.
SaveFlag_all_columns(rows, w, mode, val) ==
    {IF g.id = w.id
     THEN IF mode = "out" THEN [w EXCEPT !.boarded_outbound = val]
                          ELSE [w EXCEPT !.boarded_return = val]
     ELSE g : g \in rows}

\* 639-640 and 664-665: r.save(update_fields=["boarded_outbound"]) (or
\* ["boarded_return"]) is an UPDATE of that one column of the row with the
\* loaded row's primary key.
SaveFlag(rows, w, mode, val) ==
    {IF g.id = w.id
     THEN IF mode = "out" THEN [g EXCEPT !.boarded_outbound = val]
                          ELSE [g EXCEPT !.boarded_return = val]
     ELSE g : g \in rows}

\* 632-687: the next row of the list whose flag differs from its checkbox is
\* saved, and its notification is sent when send_email holds and the loaded
\* user has an email address.  send_mail is called with fail_silently=True:
\* the view cannot tell a delivered mail from a lost one and counts the mail
\* it handed over in `emailed`, which is how the model records it (as the
\* ids of the rows, like `updated`).  A save that matches no row raises
\* DatabaseError.  After the last row the view redirects.
HeadcountSave(r, id) ==
    /\ req[r].pc = "hc_save"
    /\ id \in req[r].todo
    /\ LET q == req[r]
           w == CHOOSE w \in q.rows : w.reg.id = id
           old == Flag(w.reg, q.mode)
           new == new_val(q.post, id)
           mail == send_email(old, new) /\ w.email # 0
       IN  /\ \A o \in q.rows : o.reg.id \in q.todo => ~Before(o.reg, w.reg, q.order)
           /\ IF ~\E g \in regs : g.id = id
              THEN /\ req' = [req EXCEPT ![r] =
                                HeadcountEnded(q, "DatabaseError", q.updated,
                                               q.emailed)]
                   /\ UNCHANGED db
              ELSE /\ regs' = SaveFlag(regs, w.reg, q.mode, new)
                   /\ LET updated == q.updated \cup {id}
                          emailed == q.emailed \cup (IF mail THEN {id} ELSE {})
                      IN  req' = [req EXCEPT ![r] =
                                    IF q.todo = {id}
                                    THEN HeadcountEnded(q, "OK", updated, emailed)
                                    ELSE [req[r] EXCEPT !.todo = q.todo \ {id},
                                                        !.updated = updated,
                                                        !.emailed = emailed]]
                   /\ UNCHANGED <<trips, nextTripId, nextRegId, users, profiles,
                                   mails>>

HeadcountStep(r) ==
    \/ HeadcountList(r)
    \/ \E id \in 1..MaxRegId : HeadcountSave(r, id)


\* ------------------------------------------------- staff: registrations
\* views.py 368-425 with RegistrationAdminForm (forms.py 110-127).

\* The fields of one RegistrationAdminForm the model carries: status and
\* the two boarding checkboxes (a checkbox that is not posted is False).
\* imagica_transaction, price and gift_code are stored and read by no rule.
\* "paid" is not one of the choices of STATUS: a form that posts it does not
\* validate.
AdminFields ==
    [status : STATUS \cup {"paid"},
     boarded_outbound : BOOLEAN, boarded_return : BOOLEAN]

AdminForm(id, f) ==
    [id |-> id, status |-> f.status, boarded_outbound |-> f.boarded_outbound,
     boarded_return |-> f.boarded_return]

\* The inputs of a manage_regs request about the rows `ids`: a GET, or a
\* POST that carries the forms of some of them, one form per prefix (385:
\* prefix=str(r.id)).
ManageInputs(ids) ==
    {[method |-> "GET", data |-> {}]} \cup
    UNION {{[method |-> "POST", data |-> {AdminForm(id, f[id]) : id \in S}] :
              f \in [S -> AdminFields]} : S \in SUBSET ids}

\* 385-386: form.is_valid() and form.has_changed() for the loaded row w: its
\* form was posted, the status is a valid choice, and some field differs
\* from the loaded instance.
FormChanges(w, data) ==
    \E d \in data :
        /\ d.id = w.id
        /\ d.status \in STATUS
        /\ \/ d.status # w.status
           \/ d.boarded_outbound # w.boarded_outbound
           \/ d.boarded_return # w.boarded_return

\* An instance whose name is derived again from the user's current names.
FormInstance_live(w, data) ==
    LET d == CHOOSE d \in data : d.id = w.id
    IN  [w EXCEPT !.status = d.status,
                  !.boarded_outbound = d.boarded_outbound,
                  !.boarded_return = d.boarded_return,
                  !.full_name = <<users[w.user].first_name,
                                  users[w.user].last_name>>]

\* The instance that form.save() writes: the loaded row with the form's
\* fields assigned (construct_instance).
FormInstance(w, data) ==
    LET d == CHOOSE d \in data : d.id = w.id
    IN  [w EXCEPT !.status = d.status,
                  !.boarded_outbound = d.boarded_outbound,
                  !.boarded_return = d.boarded_return]

\* The response of a manage_regs POST (389-390).
ManageEnded(q, outcome, updated) ==
    [IdleReq EXCEPT !.pc = "done", !.kind = "manage_regs", !.user = q.user,
                    !.method = q.method, !.target = q.trip.id,
                    !.outcome = outcome, !.updated = updated]

\* 368-374
ManageRegsStart(r, u, in) ==
    /\ req[r].pc = "idle"
    /\ req' = [req EXCEPT ![r] =
                 IF ~is_staff(users[u])
                 THEN Ended("manage_regs", u, 0, 0, "LOGIN_REDIRECT", FALSE)
                 ELSE IF active_trip = 0
                 THEN Ended("manage_regs", u, 0, 0, "NO_ACTIVE_TRIP", FALSE)
                 ELSE [IdleReq EXCEPT !.pc = "mr_list", !.kind = "manage_regs",
                                      !.user = u, !.method = in.method,
                                      !.trip = LoadTrip(active_trip),
                                      !.data = in.data]]
    /\ UNCHANGED db

\* 376-386 and 392-425: the queryset is evaluated once, by the loop of a
\* POST or by the forms of a GET (whose counts read the table for the page
\* only).  A POST goes on to the rows whose form is valid and has changed.
ManageRegsList(r) ==
    /\ req[r].pc = "mr_list"
    /\ LET q == req[r]
           rows == {g \in regs : g.trip = q.trip.id}
           todo == {w.id : w \in {w \in rows : FormChanges(w, q.data)}}
       IN  req' = [req EXCEPT ![r] =
                     IF q.method = "GET"
                     THEN [ManageEnded(q, "PAGE", {}) EXCEPT !.rows = rows]
                     ELSE IF todo = {}
                     THEN ManageEnded(q, "OK", {})
                     ELSE [req[r] EXCEPT !.pc = "mr_save", !.rows = rows,
                                         !.todo = todo]]
    /\ UNCHANGED db

\* 387: form.save() is Model.save() of the instance: an UPDATE of every
\* column of the row with its primary key, and an INSERT of the instance
\* when the UPDATE matched no row (which the constraints of the table can
\* refuse; the view does not catch the IntegrityError).
ManageRegsSave(r, id) ==
    /\ req[r].pc = "mr_save"
    /\ id \in req[r].todo
    /\ LET q == req[r]
           w == CHOOSE w \in q.rows : w.id = id
           inst == FormInstance(w, q.data)
           updated == q.updated \cup {id}
       IN  /\ \A o \in q.rows : o.id \in q.todo => ~Before(o, w, "name_asc")
           /\ IF /\ ~\E g \in regs : g.id = id
                 /\ (UniqueViolation(w.trip, w.user) \/ ForeignKeyViolation(w.trip))
              THEN /\ req' = [req EXCEPT ![r] =
                                ManageEnded(q, "IntegrityError", q.updated)]
                   /\ UNCHANGED db
              ELSE /\ regs' = {g \in regs : g.id # id} \cup {inst}
                   /\ req' = [req EXCEPT ![r] =
                                IF q.todo = {id}
                                THEN ManageEnded(q, "OK", updated)
                                ELSE [req[r] EXCEPT !.todo = q.todo \ {id},
                                                    !.updated = updated]]
                   /\ UNCHANGED <<trips, nextTripId, nextRegId, users, profiles,
                                   mails>>

ManageRegsStep(r) ==
    \/ ManageRegsList(r)
    \/ \E id \in 1..MaxRegId : ManageRegsSave(r, id)

\* --------------------------------------------------- accounts: the email
\* accounts/views.py 104-157 (resend_verification).

\* The addresses of the bounded model: the ones the users signed up with
\* and one more.  0 is the blank address.
Emails == 1..(NUsers + 1)

\* What a client can type: address e in lower case, or the same address
\* with upper-case letters in it, written -e.
InputEmails == Emails \cup {-e : e \in Emails}

\* A lower() that leaves the letters as they are.
Lower_keeps_case(e) == e

\* str.lower() (accounts/models.py 27, forms.py 53 and 70, views.py 132)
Lower(e) == IF e < 0 THEN -e ELSE e

\* The lookup email__iexact: equality up to letter case.
iexact(a, b) == a = b \/ a = -b

\* A User table without the unique constraint on email.
EmailUniqueViolation_dropped(u, e) == FALSE

\* accounts/models.py 17: email is unique; the database refuses a write
\* that gives user u an address another row holds.
EmailUniqueViolation(u, e) ==
    \E o \in Users \ {u} : users[o] # NoUser /\ users[o].email = e

\* The inputs of a resend_verification request; new_email 0 is a form that
\* does not validate.
ResendInputs ==
    {[method |-> "GET", action |-> "resend", new_email |-> 0]} \cup
    {[method |-> "POST", action |-> "resend", new_email |-> 0]} \cup
    {[method |-> "POST", action |-> "update_email", new_email |-> e] :
        e \in {0} \cup InputEmails}

\* 104-132 and 146-157: login_required loads request.user.  A GET, and a POST
\* whose form does not validate, render the page; a verified user is sent
\* back at once; the new address is put in lower case.
ResendStart(r, u, in) ==
    /\ req[r].pc = "idle"
    /\ users[u] # NoUser
    /\ req' = [req EXCEPT ![r] =
                 IF in.method = "GET"
                 THEN Ended("resend_verification", u, 0, 0, "PAGE", FALSE)
                 ELSE IF users[u].email_verified
                 THEN Ended("resend_verification", u, 0, 0, "ALREADY_VERIFIED", FALSE)
                 ELSE IF in.action = "update_email" /\ in.new_email = 0
                 THEN Ended("resend_verification", u, 0, 0, "VALIDATION_ERROR", FALSE)
                 ELSE [IdleReq EXCEPT
                         !.pc = IF in.action = "update_email"
                                THEN "rv_check" ELSE "rv_mail",
                         !.kind = "resend_verification", !.user = u,
                         !.method = in.method, !.luser = users[u],
                         !.action = in.action,
                         !.new_email = Lower(in.new_email)]]
    /\ UNCHANGED db

\* 134-136: User.objects.filter(email__iexact=new_email).exclude(pk=user.pk)
\* .exists()
ResendCheck(r) ==
    /\ req[r].pc = "rv_check"
    /\ req' = [req EXCEPT ![r] =
                 IF \E o \in Users \ {req[r].user} :
                       users[o] # NoUser /\ iexact(users[o].email, req[r].new_email)
                 THEN Ended("resend_verification", req[r].user, 0, 0,
                            "EMAIL_IN_USE", FALSE)
                 ELSE [req[r] EXCEPT !.pc = "rv_save"]]
    /\ UNCHANGED db

\* 138-140: user.save(update_fields=["email", "email_verified"]); User.save
\* (accounts/models.py 25-28) puts the address in lower case once more.  The
\* UPDATE is refused when another user holds the address by now; the view
\* does not catch the IntegrityError.
ResendSave(r) ==
    /\ req[r].pc = "rv_save"
    /\ LET email == Lower(req[r].new_email)
       IN  IF EmailUniqueViolation(req[r].user, email)
           THEN /\ req' = [req EXCEPT ![r] =
                             Ended("resend_verification", req[r].user, 0, 0,
                                   "IntegrityError", FALSE)]
                /\ UNCHANGED db
           ELSE /\ users' = [users EXCEPT ![req[r].user] =
                                [@ EXCEPT !.email = email,
                                          !.email_verified = FALSE]]
                /\ req' = [req EXCEPT ![r] =
                             [req[r] EXCEPT !.pc = "rv_mail",
                                            !.luser = [req[r].luser EXCEPT
                                                         !.email = email,
                                                         !.email_verified = FALSE]]]
                /\ UNCHANGED <<trips, nextTripId, regs, nextRegId, profiles, mails>>

\* 142-149 with email_utils.py 11-31 and mailer.py 5-24: the link signs the
\* user's id and the address of the loaded user; msg.send(fail_silently=
\* False) raises when the mail cannot be sent, which the view does not catch.
ResendMail(r, delivered) ==
    /\ req[r].pc = "rv_mail"
    /\ mails' = mails \cup
          (IF delivered THEN {<<"verify", req[r].user, req[r].luser.email>>}
                        ELSE {})
    /\ req' = [req EXCEPT ![r] =
                 Ended("resend_verification", req[r].user, 0, 0,
                       IF delivered THEN "OK" ELSE "MailError", FALSE)]
    /\ UNCHANGED <<trips, nextTripId, regs, nextRegId, users, profiles>>

ResendStep(r) ==
    \/ ResendCheck(r)
    \/ ResendSave(r)
    \/ \E delivered \in BOOLEAN : ResendMail(r, delivered)

\* ------------------------------------------------- accounts: signup
\* accounts/views.py 44-69 with SignupForm (accounts/forms.py 17-74).

\* The inputs of a signup request; email 0 is a form that does not validate
\* (a blank address, passwords that differ, terms not accepted).  The
\* username of a request is its own and is carried by no rule.
SignupInputs ==
    {[method |-> "GET", email |-> 0]} \cup
    {[method |-> "POST", email |-> e] : e \in {0} \cup InputEmails}

\* The primary key the User sequence hands out next: no view deletes a user,
\* so the rows are the first ones and the next key is the first free one.
\* 0 when the bounded table is full.
NextUserId ==
    IF \A u \in Users : users[u] # NoUser THEN 0
    ELSE CHOOSE u \in Users :
            users[u] = NoUser /\ \A o \in Users : users[o] = NoUser => u <= o

\* The response of a signup that went past the form: the request is known
\* by the address that was typed into it.
SignupEnded(q, u, outcome) ==
    [IdleReq EXCEPT !.pc = "done", !.kind = "signup", !.user = u,
                    !.method = q.method, !.outcome = outcome, !.post = q.post]

\* 51-53 and 67-69 with forms.py 52-56: form.is_valid() runs clean_email,
\* which puts the address in lower case and looks it up
\* (filter(email__iexact=email).exists()).
SignupStart(r, in) ==
    /\ req[r].pc = "idle"
    /\ req' = [req EXCEPT ![r] =
                 IF in.method = "GET"
                 THEN Ended("signup", 0, 0, 0, "FORM", FALSE)
                 ELSE IF in.email = 0
                 THEN Ended("signup", 0, 0, 0, "VALIDATION_ERROR", FALSE)
                 ELSE IF \E o \in Users :
                            users[o] # NoUser /\ iexact(users[o].email, Lower(in.email))
                 THEN Ended("signup", 0, 0, 0, "EMAIL_IN_USE", FALSE)
                 ELSE [IdleReq EXCEPT !.pc = "su_save", !.kind = "signup",
                                      !.method = in.method,
                                      !.post = {in.email},
                                      !.new_email = Lower(in.email)]]
    /\ UNCHANGED db

\* 54 with forms.py 68-74 and accounts/models.py 25-28, 46-49: form.save()
\* puts the address in lower case, User.save does so again and INSERTs the
\* row, which the unique constraint can refuse (the view does not catch the
\* IntegrityError); the post_save signal then creates the blank profile,
\* which is the row the model holds for a user without one.
SignupSave(r) ==
    /\ req[r].pc = "su_save"
    /\ NextUserId # 0
    /\ LET id == NextUserId
           row == [email |-> Lower(Lower(req[r].new_email)),
                   email_verified |-> FALSE, is_staff |-> FALSE,
                   first_name |-> 0, last_name |-> 0]
       IN  IF EmailUniqueViolation(id, row.email)
           THEN /\ req' = [req EXCEPT ![r] =
                             SignupEnded(req[r], 0, "IntegrityError")]
                /\ UNCHANGED db
           ELSE /\ users' = [users EXCEPT ![id] = row]
                /\ profiles' = [profiles EXCEPT ![id] = NoProfile]
                /\ req' = [req EXCEPT ![r] =
                             [req[r] EXCEPT !.pc = "su_mail", !.user = id,
                                            !.luser = row]]
                /\ UNCHANGED <<trips, nextTripId, regs, nextRegId, mails>>

\* 56-66 with email_utils.py 12-30 and mailer.py 6-23: the link signs the
\* new user's id and address; msg.send(fail_silently=False) raises when the
\* mail cannot be sent, which the view does not catch: the account stays.
SignupMail(r, delivered) ==
    /\ req[r].pc = "su_mail"
    /\ mails' = mails \cup
          (IF delivered THEN {<<"verify", req[r].user, req[r].luser.email>>}
                        ELSE {})
    /\ req' = [req EXCEPT ![r] =
                 SignupEnded(req[r], req[r].user,
                             IF delivered THEN "OK" ELSE "MailError")]
    /\ UNCHANGED <<trips, nextTripId, regs, nextRegId, users, profiles>>

SignupStep(r) ==
    \/ SignupSave(r)
    \/ \E delivered \in BOOLEAN : SignupMail(r, delivered)

\* ------------------------------------------- accounts: verify_email
\* accounts/views.py 72-94.

\* The tokens a client can present: the links of the verification mails
\* that were delivered (a token signs a user id and an address), and a
\* token whose signature does not check, <<0, 0>>.
Tokens ==
    {<<0, 0>>} \cup {<<x[2], x[3]>> : x \in {x \in mails : x[1] = "verify"}}

\* 87-88: user.save(update_fields=["email_verified"]) writes that column.
VerifyWrite(row, luser) == [row EXCEPT !.email_verified = TRUE]

\* 73-94 up to the save: signing.loads, User.objects.get(pk=uid) and the
\* comparison of the loaded user's address with the token's.
VerifyStart(r, tok) ==
    /\ req[r].pc = "idle"
    /\ req' = [req EXCEPT ![r] =
                 IF tok = <<0, 0>>
                 THEN Ended("verify_email", 0, 0, 0, "BAD_TOKEN", FALSE)
                 ELSE IF users[tok[1]] = NoUser
                 THEN Ended("verify_email", tok[1], 0, 0, "USER_NOT_FOUND", FALSE)
                 ELSE IF Lower(users[tok[1]].email) # Lower(tok[2])
                 THEN Ended("verify_email", tok[1], 0, 0, "MISMATCH", FALSE)
                 ELSE IF users[tok[1]].email_verified
                 THEN Ended("verify_email", tok[1], 0, 0, "ALREADY_VERIFIED", FALSE)
                 ELSE [IdleReq EXCEPT !.pc = "ve_save", !.kind = "verify_email",
                                      !.user = tok[1], !.luser = users[tok[1]],
                                      !.new_email = Lower(tok[2])]]
    /\ UNCHANGED db

\* 87-92
VerifySave(r) ==
    /\ req[r].pc = "ve_save"
    /\ users' = [users EXCEPT ![req[r].user] = VerifyWrite(@, req[r].luser)]
    /\ req' = [req EXCEPT ![r] =
                 [Ended("verify_email", req[r].user, 0, 0, "VERIFIED", FALSE)
                    EXCEPT !.new_email = req[r].new_email]]
    /\ UNCHANGED <<trips, nextTripId, regs, nextRegId, profiles, mails>>

\* The accounts after some signups: the first k users exist, each with the
\* address of the signup, its blank profile and the verification mail of
\* the signup; none has followed the link yet.  User 1, when there, is the
\* staff account.  Staff have created no trip.
InitAccounts ==
    /\ trips = [t \in Trips |-> NoTripRow]
    /\ nextTripId = 1
    /\ regs = {}
    /\ nextRegId = 1
    /\ \E k \in 0..NUsers :
          /\ users = [u \in Users |->
                        IF u <= k
                        THEN [email |-> u, email_verified |-> FALSE,
                              is_staff |-> (u \in StaffUsers),
                              first_name |-> 0, last_name |-> 0]
                        ELSE NoUser]
          /\ mails = {<<"verify", u, u>> : u \in 1..k}
    /\ profiles = [u \in Users |-> NoProfile]
    /\ req = [r \in Reqs |-> IdleReq]

\* A database the program can be in when the headcount starts: the trips
\* exist and at most one is active; the first n users registered for trip 1
\* and, when m = 1, user 1 registered for trip 2 as well (register with form
\* 1, which also wrote their names and profiles); staff set the statuses in
\* manage_regs; nobody has boarded.
InitHeadcount ==
    /\ \E act \in 0..NTrips :
          trips = [t \in Trips |-> [exists |-> TRUE, capacity |-> MaxCap,
                                    is_active |-> (t = act)]]
    /\ nextTripId = NTrips + 1
    /\ \E n \in 0..NUsers, m \in 0..1, st \in [1..MaxRegId -> STATUS] :
          /\ n + m <= MaxRegId
          /\ \A i \in (n + m + 1)..MaxRegId : st[i] = "pending"
          /\ regs = {[NewRegistration(u, 1, u, u, FormData(1))
                         EXCEPT !.status = st[u]] : u \in 1..n}
                    \cup {[NewRegistration(n + 1, 2, 1, 1, FormData(1))
                             EXCEPT !.status = st[n + 1]] : i \in 1..m}
          /\ nextRegId = n + m + 1
          /\ users = [u \in Users |->
                        IF u <= n \/ (u = 1 /\ m = 1)
                        THEN [email |-> u, email_verified |-> TRUE,
                              is_staff |-> (u \in StaffUsers),
                              first_name |-> FormData(1).first_name,
                              last_name |-> FormData(1).last_name]
                        ELSE [email |-> u, email_verified |-> FALSE,
                              is_staff |-> (u \in StaffUsers),
                              first_name |-> 0, last_name |-> 0]]
          /\ profiles = [u \in Users |->
                           IF u <= n \/ (u = 1 /\ m = 1)
                           THEN UpdatedProfile(NoProfile, FormData(1))
                           ELSE NoProfile]
    /\ mails = {}
    /\ req = [r \in Reqs |-> IdleReq]

\* -------------------------------------------------------- specifications

\* The response of an ended request is delivered and its slot is free again.
Respond(r) ==
    /\ req[r].pc = "done"
    /\ req' = [req EXCEPT ![r] = IdleReq]
    /\ UNCHANGED db

\* A request that is running is cut off (a worker timeout, a crash, a lost
\* connection): it executes no further statement.  What its statements
\* committed stays (autocommit, settings.py 94-110: no ATOMIC_REQUESTS); an
\* atomic block is one step of the model and is never left half-way.
Abort(r) ==
    /\ req[r].pc \notin {"idle", "done"}
    /\ req' = [req EXCEPT ![r] =
                 Ended(req[r].kind, req[r].user,
                       IF req[r].kind = "register" THEN req[r].trip.id
                                                   ELSE req[r].target,
                       req[r].reg, "ABORTED", FALSE)]
    /\ UNCHANGED db

\* The responses of a batch of requests are delivered once every request of
\* the batch has ended.
Quiet == \A r \in Reqs : req[r].pc \in {"idle", "done"}

RespondAll ==
    /\ Quiet
    /\ \E r \in Reqs : req[r].pc = "done"
    /\ req' = [r \in Reqs |-> IdleReq]
    /\ UNCHANGED db

SetActiveStep(r) == SetActiveSave(r) \/ SetActiveDemote(r)

TripStep(r) ==
    \/ TripCreateDemote(r)
    \/ TripEditSave(r)
    \/ TripEditDemote(r)
    \/ TripDeleteRun(r)
    \/ RegistrationDeleteLoad(r)
    \/ RegistrationDeleteRun(r)

StartAny(r) ==
    \/ \E u \in Users, in \in RegisterInputs : RegisterStart(r, u, in)
    \/ \E u \in Users, in \in TripFormInputs : TripCreateStart(r, u, in)
    \/ \E u \in Users, t \in Trips : SetActiveStart(r, u, t)
    \/ \E u \in Users, t \in Trips, in \in TripFormInputs : TripEditStart(r, u, t, in)
    \/ \E u \in Users, t \in Trips : TripDeleteStart(r, u, t)
    \/ \E u \in Users, g \in 1..MaxRegId : RegistrationDeleteStart(r, u, g)
    \/ \E u \in Users, in \in HeadcountInputs : HeadcountStart(r, u, in)
    \/ \E u \in Users, in \in ManageInputs(1..MaxRegId) : ManageRegsStart(r, u, in)
    \/ \E u \in Users, in \in ResendInputs : ResendStart(r, u, in)
    \/ \E in \in SignupInputs : SignupStart(r, in)
    \/ \E tok \in Tokens : VerifyStart(r, tok)

StepAny(r) ==
    \/ RegisterStep(r)
    \/ SetActiveStep(r)
    \/ TripStep(r)
    \/ HeadcountStep(r)
    \/ ManageRegsStep(r)
    \/ ResendStep(r)
    \/ SignupStep(r)
    \/ VerifySave(r)
    \/ Abort(r)

AllIdle == \A r \in Reqs : req[r].pc = "idle"

\* Every request of the model, up to MaxReq of them at a time.
Next == \E r \in Reqs : StartAny(r) \/ StepAny(r) \/ Respond(r)

Spec == Init /\ [][Next]_vars

\* Register requests alone, any number of them at a time up to MaxReq, the
\* catalog as staff left it.
NextRegister ==
    \E r \in Reqs :
        \/ \E u \in Users, in \in RegisterInputs : RegisterStart(r, u, in)
        \/ RegisterStep(r)
        \/ Respond(r)

SpecRegister == Init /\ [][NextRegister]_vars

\* The staff requests on the trip catalog one at a time: a request starts
\* only when no other is running.
NextSeqCatalog ==
    \E r \in Reqs :
        \/ /\ AllIdle
           /\ \/ \E u \in Users, in \in TripFormInputs : TripCreateStart(r, u, in)
              \/ \E u \in Users, t \in Trips : SetActiveStart(r, u, t)
              \/ \E u \in Users, t \in Trips, in \in TripFormInputs :
                    TripEditStart(r, u, t, in)
              \/ \E u \in Users, t \in Trips : TripDeleteStart(r, u, t)
        \/ SetActiveStep(r)
        \/ TripCreateDemote(r)
        \/ TripEditSave(r)
        \/ TripEditDemote(r)
        \/ TripDeleteRun(r)
        \/ Respond(r)

SpecSeqCatalog == Init /\ [][NextSeqCatalog]_vars

\* Batches of up to MaxReq concurrent trip_set_active requests, alone.
NextSetActive ==
    \/ \E r \in Reqs :
          \/ \E u \in Users, t \in Trips : SetActiveStart(r, u, t)
          \/ SetActiveStep(r)
    \/ RespondAll

SpecSetActive == Init /\ [][NextSetActive]_vars

\* Concurrent trip_create and trip_edit requests alone.
NextCreateEdit ==
    \E r \in Reqs :
        \/ \E u \in Users, in \in TripFormInputs : TripCreateStart(r, u, in)
        \/ \E u \in Users, t \in Trips, in \in TripFormInputs : TripEditStart(r, u, t, in)
        \/ TripCreateDemote(r)
        \/ TripEditSave(r)
        \/ TripEditDemote(r)
        \/ Respond(r)

SpecCreateEdit == Init /\ [][NextCreateEdit]_vars

\* Headcount requests one at a time.
NextSeqHeadcount ==
    \E r \in Reqs :
        \/ /\ AllIdle
           /\ \E u \in Users, in \in HeadcountInputs : HeadcountStart(r, u, in)
        \/ HeadcountStep(r)
        \/ Respond(r)

SpecSeqHeadcount == InitHeadcount /\ [][NextSeqHeadcount]_vars

\* The submissions of the unfiltered headcount page, either leg.
HeadcountPosts ==
    {in \in HeadcountInputs :
        /\ in.method = "POST" /\ in.mode \in {"out", "ret"}
        /\ in.q = 0 /\ in.only = "" /\ in.order = "name_asc"}

\* Batches of up to MaxReq concurrent submissions of the headcount page.
NextHeadcount ==
    \/ \E r \in Reqs :
          \/ \E u \in Users, in \in HeadcountPosts : HeadcountStart(r, u, in)
          \/ HeadcountStep(r)
    \/ RespondAll

SpecHeadcount == InitHeadcount /\ [][NextHeadcount]_vars


\* The ledger as its operations follow one another.  Both trips exist with
\* seats and trip 1 is active; user 2 has verified the address and
\* registers, user 1 is the staff account, whose address is not verified and
\* can still be changed.
InitLedger ==
    /\ trips = [t \in Trips |-> [exists |-> TRUE, capacity |-> MaxCap,
                                is_active |-> (t = 1)]]
    /\ nextTripId = NTrips + 1
    /\ regs = {}
    /\ nextRegId = 1
    /\ users = [u \in Users |->
                  [email |-> u, email_verified |-> (u \notin StaffUsers),
                   is_staff |-> (u \in StaffUsers),
                   first_name |-> 0, last_name |-> 0]]
    /\ profiles = [u \in Users |-> NoProfile]
    /\ mails = {}
    /\ req = [r \in Reqs |-> IdleReq]

\* The submissions of a registrations page that carry the valid form of one
\* row.
ManagePosts ==
    {[method |-> "POST", data |-> {AdminForm(id, f)}] :
        id \in 1..MaxRegId, f \in {f \in AdminFields : f.status \in STATUS}}

\* The change of the address to the one no user signed up with.
ResendPosts ==
    {in \in ResendInputs :
        in.action = "update_email" /\ in.new_email = NUsers + 1}

\* register, trip_set_active, manage_regs, headcount and the change of the
\* email address, one request at a time; the mails are delivered and no
\* organizer address is configured.
NextSeqLedger ==
    \E r \in Reqs :
        \/ /\ AllIdle
           /\ \/ \E u \in Users, in \in RegisterInputs : RegisterStart(r, u, in)
              \/ \E u \in Users, t \in Trips : SetActiveStart(r, u, t)
              \/ \E u \in Users, in \in ManagePosts : ManageRegsStart(r, u, in)
              \/ \E u \in Users, in \in HeadcountPosts : HeadcountStart(r, u, in)
              \/ \E u \in Users, in \in ResendPosts : ResendStart(r, u, in)
        \/ RegisterActiveTrip(r)
        \/ RegisterExists(r)
        \/ RegisterPrecheck(r)
        \/ RegisterPrecheck2(r)
        \/ RegisterProfile(r)
        \/ RegisterRefresh(r)
        \/ RegisterRecheck(r)
        \/ RegisterRecheck2(r)
        \/ RegisterSave(r)
        \/ RegisterMail(r, [registrant |-> TRUE, organizer |-> "unset"])
        \/ SetActiveStep(r)
        \/ ManageRegsStep(r)
        \/ HeadcountStep(r)
        \/ ResendCheck(r)
        \/ ResendSave(r)
        \/ ResendMail(r, TRUE)
        \/ Respond(r)

SpecSeqLedger == InitLedger /\ [][NextSeqLedger]_vars

\* Submissions of the registration form (form 1) while staff switch the
\* active trip between the trips of the catalog: up to MaxReq requests at a
\* time; the mails are delivered and no organizer address is configured.
RegisterPosts == {in \in RegisterInputs : in.method = "POST" /\ in.form = 1}

NextRegisterSetActive ==
    \E r \in Reqs :
        \/ \E u \in Users, in \in RegisterPosts : RegisterStart(r, u, in)
        \/ \E u \in Users, t \in Trips : SetActiveStart(r, u, t)
        \/ RegisterActiveTrip(r)
        \/ RegisterExists(r)
        \/ RegisterPrecheck(r)
        \/ RegisterPrecheck2(r)
        \/ RegisterProfile(r)
        \/ RegisterRefresh(r)
        \/ RegisterRecheck(r)
        \/ RegisterRecheck2(r)
        \/ RegisterSave(r)
        \/ RegisterMail(r, [registrant |-> TRUE, organizer |-> "unset"])
        \/ SetActiveStep(r)
        \/ Respond(r)

SpecRegisterSetActive == InitWith(NTrips) /\ [][NextRegisterSetActive]_vars

\* Submissions of the registration form and the staff requests that make a
\* trip active, one request at a time, any of which may be cut off; the
\* mails are delivered and no organizer address is configured.
NextSeqAbort ==
    \E r \in Reqs :
        \/ /\ AllIdle
           /\ \/ \E u \in Users, in \in RegisterPosts : RegisterStart(r, u, in)
              \/ \E u \in Users, in \in TripFormInputs : TripCreateStart(r, u, in)
              \/ \E u \in Users, t \in Trips : SetActiveStart(r, u, t)
              \/ \E u \in Users, t \in Trips, in \in TripFormInputs :
                    TripEditStart(r, u, t, in)
        \/ RegisterActiveTrip(r)
        \/ RegisterExists(r)
        \/ RegisterPrecheck(r)
        \/ RegisterPrecheck2(r)
        \/ RegisterProfile(r)
        \/ RegisterRefresh(r)
        \/ RegisterRecheck(r)
        \/ RegisterRecheck2(r)
        \/ RegisterSave(r)
        \/ RegisterMail(r, [registrant |-> TRUE, organizer |-> "unset"])
        \/ SetActiveStep(r)
        \/ TripCreateDemote(r)
        \/ TripEditSave(r)
        \/ TripEditDemote(r)
        \/ Abort(r)
        \/ Respond(r)

SpecSeqAbort == Init /\ [][NextSeqAbort]_vars


\* The submissions of a registrations page that change the status of one
\* row and leave its boarding checkboxes off.
StatusPosts ==
    {in \in ManagePosts :
        \A d \in in.data : ~d.boarded_outbound /\ ~d.boarded_return}

\* The seats of the trips as the operations that fill and free them follow
\* one another: register, trip_edit, manage_regs and registration_delete,
\* one request at a time; the mails are delivered and no organizer address
\* is configured.
NextSeqSeats ==
    \E r \in Reqs :
        \/ /\ AllIdle
           /\ \/ \E u \in Users, in \in RegisterPosts : RegisterStart(r, u, in)
              \/ \E u \in Users, t \in Trips, in \in TripFormInputs :
                    TripEditStart(r, u, t, in)
              \/ \E u \in Users, in \in StatusPosts : ManageRegsStart(r, u, in)
              \/ \E u \in Users, g \in 1..MaxRegId : RegistrationDeleteStart(r, u, g)
        \/ RegisterActiveTrip(r)
        \/ RegisterExists(r)
        \/ RegisterPrecheck(r)
        \/ RegisterPrecheck2(r)
        \/ RegisterProfile(r)
        \/ RegisterRefresh(r)
        \/ RegisterRecheck(r)
        \/ RegisterRecheck2(r)
        \/ RegisterSave(r)
        \/ RegisterMail(r, [registrant |-> TRUE, organizer |-> "unset"])
        \/ TripEditSave(r)
        \/ TripEditDemote(r)
        \/ ManageRegsStep(r)
        \/ RegistrationDeleteLoad(r)
        \/ RegistrationDeleteRun(r)
        \/ Respond(r)

SpecSeqSeats == Init /\ [][NextSeqSeats]_vars

\* trip_set_active and trip_edit requests, up to MaxReq of them at a time.
NextSetActiveEdit ==
    \E r \in Reqs :
        \/ \E u \in Users, t \in Trips : SetActiveStart(r, u, t)
        \/ \E u \in Users, t \in Trips, in \in TripFormInputs : TripEditStart(r, u, t, in)
        \/ SetActiveStep(r)
        \/ TripEditSave(r)
        \/ TripEditDemote(r)
        \/ Respond(r)

SpecSetActiveEdit == Init /\ [][NextSetActiveEdit]_vars

\* The submissions of the headcount page in outbound mode.
OutboundPosts == {in \in HeadcountPosts : in.mode = "out"}

\* Every view that writes, requested by staff and by the other users alike,
\* one request at a time: the valid submissions of the forms; the mails
\* are delivered and no organizer address is configured.
NextSeqAccess ==
    \E r \in Reqs :
        \/ /\ AllIdle
           /\ \/ \E u \in Users, in \in RegisterPosts : RegisterStart(r, u, in)
              \/ \E u \in Users, in \in TripFormInputs : TripCreateStart(r, u, in)
              \/ \E u \in Users, t \in Trips : SetActiveStart(r, u, t)
              \/ \E u \in Users, t \in Trips, in \in TripFormInputs :
                    TripEditStart(r, u, t, in)
              \/ \E u \in Users, t \in Trips : TripDeleteStart(r, u, t)
              \/ \E u \in Users, g \in 1..MaxRegId : RegistrationDeleteStart(r, u, g)
              \/ \E u \in Users, in \in StatusPosts : ManageRegsStart(r, u, in)
              \/ \E u \in Users, in \in OutboundPosts : HeadcountStart(r, u, in)
        \/ RegisterActiveTrip(r)
        \/ RegisterExists(r)
        \/ RegisterPrecheck(r)
        \/ RegisterPrecheck2(r)
        \/ RegisterProfile(r)
        \/ RegisterRefresh(r)
        \/ RegisterRecheck(r)
        \/ RegisterRecheck2(r)
        \/ RegisterSave(r)
        \/ RegisterMail(r, [registrant |-> TRUE, organizer |-> "unset"])
        \/ SetActiveStep(r)
        \/ TripStep(r)
        \/ ManageRegsStep(r)
        \/ HeadcountStep(r)
        \/ Respond(r)

SpecSeqAccess == Init /\ [][NextSeqAccess]_vars

\* verify_email and resend_verification requests of the users there are, up
\* to MaxReq of them at a time.
NextVerify ==
    \E r \in Reqs :
        \/ \E tok \in Tokens : VerifyStart(r, tok)
        \/ \E u \in Users, in \in ResendInputs : ResendStart(r, u, in)
        \/ VerifySave(r)
        \/ ResendStep(r)
        \/ Respond(r)

SpecVerify == InitAccounts /\ [][NextVerify]_vars

\* The same requests one at a time.
NextSeqVerify ==
    \E r \in Reqs :
        \/ /\ AllIdle
           /\ \/ \E tok \in Tokens : VerifyStart(r, tok)
              \/ \E u \in Users, in \in ResendInputs : ResendStart(r, u, in)
        \/ VerifySave(r)
        \/ ResendStep(r)
        \/ Respond(r)

SpecSeqVerify == InitAccounts /\ [][NextSeqVerify]_vars

\* The change of the address to any address a client can type.
UpdateEmailPosts == {in \in ResendInputs : in.action = "update_email"}

\* signup and the update-email action of resend_verification, up to MaxReq
\* requests at a time; the mails are delivered.
NextSignup ==
    \E r \in Reqs :
        \/ \E in \in SignupInputs : SignupStart(r, in)
        \/ \E u \in Users, in \in UpdateEmailPosts : ResendStart(r, u, in)
        \/ SignupSave(r)
        \/ SignupMail(r, TRUE)
        \/ ResendCheck(r)
        \/ ResendSave(r)
        \/ ResendMail(r, TRUE)
        \/ Respond(r)

SpecSignup == InitAccounts /\ [][NextSignup]_vars

\* A ledger with a registration for a trip that is not the active one:
\* every trip exists with seats, trip 2 was active when user 1 registered
\* for it (register with form 1), and staff have since made trip 1 active
\* or left trip 2 active; both users have verified their address.
InitDeletes ==
    /\ \E act \in Trips :
          trips = [t \in Trips |-> [exists |-> TRUE, capacity |-> MaxCap,
                                    is_active |-> (t = act)]]
    /\ nextTripId = NTrips + 1
    /\ regs = {NewRegistration(1, 2, 1, 1, FormData(1))}
    /\ nextRegId = 2
    /\ mails = {<<"registered", 1>>}
    /\ users = [u \in Users |->
                  [email |-> u, email_verified |-> TRUE,
                   is_staff |-> (u \in StaffUsers),
                   first_name |-> IF u = 1 THEN FormData(1).first_name ELSE 0,
                   last_name |-> IF u = 1 THEN FormData(1).last_name ELSE 0]]
    /\ profiles = [u \in Users |->
                     IF u = 1 THEN UpdatedProfile(NoProfile, FormData(1))
                     ELSE NoProfile]
    /\ req = [r \in Reqs |-> IdleReq]

\* register, trip_delete, registration_delete and the staff edits of
\* manage_regs, up to MaxReq requests at a time; the mails are delivered
\* and no organizer address is configured.
NextDeletes ==
    \E r \in Reqs :
        \/ \E u \in Users, in \in RegisterPosts : RegisterStart(r, u, in)
        \/ \E u \in Users, t \in Trips : TripDeleteStart(r, u, t)
        \/ \E u \in Users, g \in 1..MaxRegId : RegistrationDeleteStart(r, u, g)
        \/ \E u \in Users, in \in StatusPosts : ManageRegsStart(r, u, in)
        \/ RegisterActiveTrip(r)
        \/ RegisterExists(r)
        \/ RegisterPrecheck(r)
        \/ RegisterPrecheck2(r)
        \/ RegisterProfile(r)
        \/ RegisterRefresh(r)
        \/ RegisterRecheck(r)
        \/ RegisterRecheck2(r)
        \/ RegisterSave(r)
        \/ RegisterMail(r, [registrant |-> TRUE, organizer |-> "unset"])
        \/ TripDeleteRun(r)
        \/ RegistrationDeleteLoad(r)
        \/ RegistrationDeleteRun(r)
        \/ ManageRegsStep(r)
        \/ Respond(r)

SpecDeletes == InitDeletes /\ [][NextDeletes]_vars

\* ------------------------------------------------------------- claims

\* C1 (as claimed): with the capacity not edited, the Registration rows of a
\* trip never number more than its capacity, whatever the interleaving of
\* concurrent register submissions.
C1_CapacityNeverExceeded ==
    \A t \in Trips : trips[t].exists =>
        Cardinality({g \in regs : g.trip = t}) <= trips[t].capacity

\* C2 (as claimed): at most one Trip is active in every committed state,
\* also between the statements of concurrent trip_set_active calls.
C2_AtMostOneActive ==
    Cardinality({t \in Trips : trips[t].exists /\ trips[t].is_active}) <= 1

\* C3 (as claimed): once every call of a batch of concurrent set_active calls
\* has completed, exactly one trip is active and it is the target of one of
\* the calls.
C3_BatchLeavesOneActive ==
    (/\ Quiet
     /\ \E r \in Reqs : req[r].kind = "trip_set_active" /\ req[r].outcome = "OK")
    => /\ Cardinality({t \in Trips : trips[t].exists /\ trips[t].is_active}) = 1
       /\ \E r \in Reqs :
             /\ req[r].kind = "trip_set_active" /\ req[r].outcome = "OK"
             /\ trips[req[r].target].is_active

\* C4 (as claimed): a trip_create or trip_edit that makes its trip active
\* leaves no committed state, between its write and its demotion of the
\* others, in which its trip and another trip are both active.
C4_CreateEditDemotesInSameUnit ==
    \A r \in Reqs : req[r].pc \in {"tc_demote", "te_demote"} =>
        \A t \in Trips : (trips[t].exists /\ trips[t].is_active) => t = req[r].target

\* C5: with no concurrent request, the step that completes set_active(t2)
\* leaves t2 active and every other trip inactive.
C5_SetActiveSequential ==
    [][\A r \in Reqs :
          (req[r].pc = "sa_demote" /\ req'[r].pc = "done") =>
             /\ trips'[req[r].target].exists
             /\ trips'[req[r].target].is_active
             /\ \A t \in Trips \ {req[r].target} : ~trips'[t].is_active]_vars

C5_Witness ==
    \E r \in Reqs, t1 \in Trips :
        /\ req[r].pc = "done" /\ req[r].kind = "trip_set_active"
        /\ req[r].outcome = "OK"
        /\ t1 # req[r].target
        /\ trips[t1].exists /\ ~trips[t1].is_active
        /\ trips[req[r].target].is_active

\* C6: there is at most one Registration row per (trip, user); a step never
\* changes or removes a row (register requests alone), and the only rows it
\* adds are for a (trip, user) pair that had none.
C6_OneRowPerTripUser ==
    /\ [](\A g, h \in regs : (g.trip = h.trip /\ g.user = h.user) => g = h)
    /\ [][/\ regs \subseteq regs'
          /\ \A g \in regs' \ regs :
                ~\E h \in regs : h.trip = g.trip /\ h.user = g.user]_vars

C6_Witness ==
    \E r1, r2 \in Reqs :
        /\ req[r1].pc = "done" /\ req[r1].kind = "register"
        /\ req[r1].outcome = "ALREADY_REGISTERED"
        /\ req[r2].pc = "done" /\ req[r2].kind = "register"
        /\ req[r2].outcome = "IntegrityError_unique"
        /\ req[r1].user = req[r2].user /\ req[r1].target = req[r2].target
        /\ Cardinality({g \in regs : g.trip = req[r1].target
                                     /\ g.user = req[r1].user}) = 1

\* C7 (as claimed): a register request that loses the race on the unique
\* (trip, user) constraint never ends with the storage error.
C7_LostRaceIsAlreadyRegistered ==
    \A r \in Reqs : req[r].outcome # "IntegrityError_unique"

\* C8: a register request of a user whose email_verified is false ends at
\* once as NOT_VERIFIED and changes no row of any table.
C8_UnverifiedRejected ==
    [][\A r \in Reqs :
          (/\ req[r].pc = "idle" /\ req'[r].pc # "idle"
           /\ req'[r].kind = "register"
           /\ ~users[req'[r].user].email_verified)
          => /\ req'[r].pc = "done"
             /\ req'[r].outcome = "NOT_VERIFIED"
             /\ UNCHANGED db]_vars

C8_Witness ==
    \E r \in Reqs :
        /\ req[r].pc = "done" /\ req[r].kind = "register"
        /\ req[r].outcome = "NOT_VERIFIED"
        /\ ~users[req[r].user].email_verified
        /\ \E t \in Trips : trips[t].is_active /\ trips[t].capacity > 0

\* C9: when no trip is active at its lookup, a register request of a
\* verified user ends as NO_ACTIVE_TRIP and changes no row of any table.
C9_NoActiveTripRejected ==
    [][\A r \in Reqs :
          (/\ req[r].pc = "reg_active" /\ req'[r] # req[r]
           /\ \A t \in Trips : ~(trips[t].exists /\ trips[t].is_active))
          => /\ req'[r].pc = "done"
             /\ req'[r].outcome = "NO_ACTIVE_TRIP"
             /\ UNCHANGED db]_vars

C9_Witness ==
    \E r \in Reqs :
        /\ req[r].pc = "done" /\ req[r].kind = "register"
        /\ req[r].outcome = "NO_ACTIVE_TRIP"
        /\ users[req[r].user].email_verified
        /\ \A t \in Trips : ~trips[t].is_active
        /\ \E t \in Trips : trips[t].exists

\* C10: from the commit of the Registration row on, whether the mails are
\* delivered or fail, the row exists; the request ends as a success, with a
\* warning exactly when the registrant's mail was not delivered.
C10_MailFailureKeepsRow ==
    \A r \in Reqs :
        /\ req[r].pc = "reg_mail" =>
              \E g \in regs : g.id = req[r].reg /\ g.user = req[r].user
        /\ (req[r].pc = "done" /\ req[r].kind = "register" /\ req[r].reg # 0) =>
              /\ req[r].outcome = "REGISTERED"
              /\ \E g \in regs : /\ g.id = req[r].reg
                                 /\ g.user = req[r].user
                                 /\ g.trip = req[r].target
              /\ req[r].warning <=> (<<"registered", req[r].reg>> \notin mails)

C10_Witness ==
    \E r \in Reqs :
        /\ req[r].pc = "done" /\ req[r].outcome = "REGISTERED"
        /\ req[r].warning
        /\ <<"registered", req[r].reg>> \notin mails
        /\ \E g \in regs : g.id = req[r].reg

\* C11: with headcount requests run one at a time, a step sends the boarding
\* notification of a registration and a leg exactly when it takes the stored
\* flag of that leg from false to true; a repeated true, a change from true
\* to false and an unchanged false send none, and no step sends two.
C11_NotifiesOnFirstTrue ==
    [][/\ \A g \in regs, h \in regs' : g.id = h.id =>
             /\ (~g.boarded_outbound /\ h.boarded_outbound) <=>
                   \E r \in Reqs : /\ req[r].mode = "out"
                                   /\ g.id \in req'[r].emailed \ req[r].emailed
             /\ (~g.boarded_return /\ h.boarded_return) <=>
                   \E r \in Reqs : /\ req[r].mode = "ret"
                                   /\ g.id \in req'[r].emailed \ req[r].emailed
       /\ \A r \in Reqs :
             /\ Cardinality(req'[r].emailed \ req[r].emailed) <= 1
             /\ req'[r].emailed \ req[r].emailed \subseteq {g.id : g \in regs}
       /\ mails' = mails]_vars

\* A finished submission that took the outbound flag of a row from false
\* to true and sent its one notification.
C11_Witness ==
    \E r \in Reqs :
        /\ req[r].pc = "done" /\ req[r].kind = "headcount"
        /\ req[r].method = "POST" /\ req[r].outcome = "OK"
        /\ req[r].mode = "out"
        /\ Cardinality(req[r].updated) = 1 /\ req[r].emailed = req[r].updated
        /\ \E g \in regs : /\ g.id \in req[r].emailed
                           /\ g.trip = req[r].target
                           /\ g.boarded_outbound /\ ~g.boarded_return

\* C12: a step never changes full_name, phone, dob, park_choice or
\* email_used of a Registration row, whatever the operation (the user's
\* registrations for other trips with their profile and name updates, the
\* change of an email address, the staff edits of manage_regs, headcount);
\* and a row that appears carries a primary key that no row had before, so
\* the values a row has are the ones written when it was created.
C12_SnapshotFrozen ==
    [][/\ \A g \in regs, h \in regs' : g.id = h.id =>
             /\ h.full_name = g.full_name
             /\ h.phone = g.phone
             /\ h.dob = g.dob
             /\ h.park_choice = g.park_choice
             /\ h.email_used = g.email_used
       /\ \A h \in regs' : (\A g \in regs : g.id # h.id) => h.id = nextRegId]_vars

\* A row that staff have edited and boarded, whose user has since registered
\* for the other trip under another name, while an email address changed.
C12_Witness ==
    \E g, h \in regs :
        /\ g.user = h.user /\ g.trip # h.trip /\ g.id < h.id
        /\ g.full_name # h.full_name
        /\ g.full_name[1] # profiles[g.user].first_name
        /\ g.full_name[1] # users[g.user].first_name
        /\ g.status = "cancelled" /\ g.boarded_outbound
        /\ \E u \in Users : users[u].email # u

\* C13: a step of a headcount request in outbound mode changes no row's
\* boarded_return, and a step of one in return mode changes no row's
\* boarded_outbound, also while a request for the other leg is running on
\* the same registration; no step adds or removes a row.
C13_LegsIndependent ==
    [][\A r \in Reqs :
          (req[r].kind = "headcount" /\ req'[r] # req[r]) =>
             /\ {g.id : g \in regs'} = {g.id : g \in regs}
             /\ \A g \in regs, h \in regs' : g.id = h.id =>
                   /\ req[r].mode = "out" => h.boarded_return = g.boarded_return
                   /\ req[r].mode = "ret" => h.boarded_outbound = g.boarded_outbound]_vars

\* Two submissions, one per leg, have both saved the same row, and they
\* overlapped: the return one, still running, loaded the row before the
\* outbound one saved it.  The row is boarded on both legs.
C13_Witness ==
    \E r1, r2 \in Reqs, g \in regs :
        /\ req[r1].pc = "done" /\ req[r1].kind = "headcount"
        /\ req[r1].mode = "out" /\ g.id \in req[r1].updated
        /\ req[r2].pc = "hc_save" /\ req[r2].mode = "ret"
        /\ g.id \in req[r2].updated
        /\ \E w \in req[r2].rows : w.reg.id = g.id /\ ~w.reg.boarded_outbound
        /\ g.boarded_outbound /\ g.boarded_return

\* C14 (as claimed): a bulk headcount POST works on exactly the rows of the
\* filtered view: the registrations of the active trip with status pending
\* or paid that match the search text and, with only-unchecked on, whose
\* flag of the current leg is false.  The rows it goes on to save are the
\* rows of that view whose flag differs from their checkbox; a save changes
\* one such row, sets the flag of the current leg to its checkbox and
\* notifies exactly on false to true; every other row keeps both flags.
C14_BulkRespectsFilter ==
    [][\A r \in Reqs :
          LET q == req[r]
              view == {g \in regs :
                         /\ g.trip = q.trip.id
                         /\ g.status \in {"pending", "paid"}
                         /\ q.q # 0 => \/ q.q = g.full_name[1]
                                       \/ q.q = g.full_name[2]
                                       \/ q.q = users[g.user].email
                                       \/ q.q = g.phone
                         /\ (q.only = "unchecked" /\ q.mode = "out")
                               => ~g.boarded_outbound
                         /\ (q.only = "unchecked" /\ q.mode = "ret")
                               => ~g.boarded_return}
              flag(g) == IF q.mode = "out" THEN g.boarded_outbound
                                           ELSE g.boarded_return
          IN  /\ (q.pc = "hc_list" /\ q.method = "POST" /\ req'[r] # q) =>
                    /\ regs' = regs
                    /\ req'[r].todo =
                          {g.id : g \in {g \in view : flag(g) # (g.id \in q.post)}}
              /\ (q.pc = "hc_save" /\ req'[r] # q) =>
                    \A g \in regs, h \in regs' : (g.id = h.id /\ h # g) =>
                       /\ g \in view
                       /\ flag(h) = (g.id \in q.post)
                       /\ (g.id \in req'[r].emailed) <=> (~flag(g) /\ flag(h))]_vars

\* C15 (as claimed): a step inserts a Registration row only for a trip that
\* is active when the row is inserted, also when trip_set_active on another
\* trip commits between the register request's lookup of the active trip and
\* its insert.
C15_InsertOnlyForActiveTrip ==
    [][\A h \in regs' :
          (\A g \in regs : g.id # h.id) =>
             trips[h.trip].exists /\ trips[h.trip].is_active]_vars

\* C16 (as claimed): with headcount POSTs running concurrently, every
\* boarding notification belongs to a false-to-true transition of the stored
\* flag of its leg: a request sends the notification of a registration only
\* in a step that finds the stored flag false, so that two POSTs that both
\* set the same leg of the same registration to true send one notification
\* between them.
C16_OneNotificationPerTransition ==
    [][\A r \in Reqs, g \in regs :
          g.id \in req'[r].emailed \ req[r].emailed =>
             /\ req[r].mode = "out" => ~g.boarded_outbound
             /\ req[r].mode = "ret" => ~g.boarded_return]_vars

\* C17 (as claimed): a step changes boarded_outbound or boarded_return of a
\* Registration row only when it is a step of a headcount request; no other
\* operation, manage_regs in particular, sets or resets a boarding flag.
C17_FlagsOnlyByHeadcount ==
    [][\A g \in regs, h \in regs' :
          (/\ g.id = h.id
           /\ \/ h.boarded_outbound # g.boarded_outbound
              \/ h.boarded_return # g.boarded_return)
          => \E r \in Reqs : req[r].kind = "headcount" /\ req'[r] # req[r]]_vars

\* C18: the registration mails are sent only after the INSERT of the row has
\* committed.  A step that sends mail is the mail step of a register request
\* whose row is already in the table, it sends mails for that row only and
\* the request ends as registered; so every mail is about a committed row,
\* and a request that is rejected or whose transaction rolls back sends none.
C18_MailsAfterCommit ==
    /\ [](\A x \in mails :
             x[1] \in {"registered", "organizer"} =>
                \E g \in regs : g.id = x[2])
    /\ [][mails' # mails =>
             \E r \in Reqs :
                /\ req[r].pc = "reg_mail"
                /\ \E g \in regs : g.id = req[r].reg /\ g.user = req[r].user
                /\ mails' \ mails \subseteq {<<"registered", req[r].reg>>,
                                             <<"organizer", req[r].reg>>}
                /\ req'[r].pc = "done" /\ req'[r].outcome = "REGISTERED"]_vars

\* One request has committed its row and sent both mails; another lost the
\* race on the unique constraint, rolled back and sent none.
C18_Witness ==
    \E r1, r2 \in Reqs :
        /\ req[r1].pc = "done" /\ req[r1].outcome = "REGISTERED"
        /\ req[r2].pc = "done" /\ req[r2].outcome = "IntegrityError_unique"
        /\ \E g \in regs : g.id = req[r1].reg
        /\ mails = {<<"registered", req[r1].reg>>, <<"organizer", req[r1].reg>>}

\* C19 (as claimed): a request that is cut off before it finishes leaves no
\* partial state.  After an aborted register every user has a Registration
\* row exactly when the profile carries the names of a registration, and
\* they are the names of the user's rows; after an aborted trip_set_active,
\* trip_create or trip_edit the trip of the request is not active together
\* with another trip.
C19_AbortLeavesNoPartialState ==
    \A r \in Reqs :
        (req[r].pc = "done" /\ req[r].outcome = "ABORTED") =>
           /\ req[r].kind = "register" =>
                 \A u \in Users :
                    /\ (\E g \in regs : g.user = u) <=>
                          (profiles[u].first_name # 0)
                    /\ \A g \in regs : g.user = u =>
                          /\ g.full_name[1] = profiles[u].first_name
                          /\ g.full_name[2] = profiles[u].last_name
                          /\ g.full_name[1] = users[u].first_name
           /\ (/\ req[r].kind \in {"trip_set_active", "trip_create", "trip_edit"}
               /\ req[r].target \in Trips) =>
                 ~(/\ trips[req[r].target].exists
                   /\ trips[req[r].target].is_active
                   /\ \E t \in Trips \ {req[r].target} :
                         trips[t].exists /\ trips[t].is_active)

\* C20 (as claimed): with only-unchecked on (and no search text), the rows of
\* the headcount page are exactly the pending or paid registrations of the
\* active trip whose flag of the current leg is false, whatever the flag of
\* the other leg.
C20_OnlyUncheckedIsCurrentLeg ==
    [][\A r \in Reqs :
          (/\ req[r].pc = "hc_list" /\ req[r].method = "GET"
           /\ req[r].only = "unchecked" /\ req[r].q = 0
           /\ req'[r] # req[r])
          => {w.reg : w \in req'[r].rows} =
                {g \in regs :
                    /\ g.trip = req[r].trip.id
                    /\ g.status \in {"pending", "paid"}
                    /\ req[r].mode = "out" => ~g.boarded_outbound
                    /\ req[r].mode = "ret" => ~g.boarded_return}]_vars

\* C21: seats_taken of a trip is the number of its Registration rows,
\* whatever their status; seats_left is max(capacity - seats_taken, 0) and
\* never negative; is_full holds exactly when no seat is left; the helpers
\* of the views and the properties of the Trip model agree in every state.
\* Hence a step that sets the status of a row to cancelled leaves the
\* count of its trip as it was, and a registration_delete that removes a
\* row takes the count of its trip down by one.
C21_SeatsDerived ==
    /\ [](\A t \in Trips : trips[t].exists =>
            LET n == Cardinality({g \in regs : g.trip = t})
                c == trips[t].capacity
                trip == [id |-> t, exists |-> TRUE, capacity |-> c,
                         is_active |-> trips[t].is_active]
            IN  /\ seats_taken(t) = n
                /\ Trip_seats_left(trip) = (IF c > n THEN c - n ELSE 0)
                /\ Trip_seats_left(trip) >= 0
                /\ Trip_is_full(trip) <=> (c <= n)
                /\ seats_left(trip) = Trip_seats_left(trip)
                /\ is_full(trip) <=> Trip_is_full(trip))
    /\ [][/\ \A g \in regs, h \in regs' :
                (g.id = h.id /\ g.status # "cancelled" /\ h.status = "cancelled")
                => Cardinality({x \in regs' : x.trip = g.trip})
                      = Cardinality({x \in regs : x.trip = g.trip})
          /\ \A r \in Reqs, g \in regs :
                (req[r].pc = "rd_delete" /\ req'[r] # req[r] /\ g.id = req[r].reg)
                => Cardinality({x \in regs' : x.trip = g.trip})
                      = Cardinality({x \in regs : x.trip = g.trip}) - 1]_vars

\* A registration_delete has removed a row, while another trip is full
\* with a cancelled registration on its one seat.
C21_Witness ==
    \E r \in Reqs, t \in Trips, g \in regs :
        /\ req[r].pc = "done" /\ req[r].kind = "registration_delete"
        /\ req[r].outcome = "OK"
        /\ \A x \in regs : x.id # req[r].reg
        /\ g.trip = t /\ g.status = "cancelled"
        /\ trips[t].exists /\ trips[t].capacity = 1
        /\ Cardinality({x \in regs : x.trip = t}) = 1

\* C22 (as claimed): with the operations run one at a time, staff edits of
\* the capacity included, the Registration rows of a trip never number more
\* than its capacity: a trip_edit never commits a capacity below the number
\* of rows the trip has.
C22_EditKeepsCapacityGuard ==
    /\ [](\A t \in Trips : trips[t].exists =>
            Cardinality({g \in regs : g.trip = t}) <= trips[t].capacity)
    /\ [][\A r \in Reqs :
            (req[r].pc = "te_save" /\ req'[r] # req[r]) =>
               Cardinality({g \in regs : g.trip = req[r].target})
                  <= trips'[req[r].target].capacity]_vars

\* C23 (as claimed): a step of a trip_set_active request changes is_active
\* flags only: the capacity (and with it every other attribute) of every
\* trip is after the step what it was before, also when a trip_edit of the
\* same trip has committed between the request's read of the trip and its
\* write.
C23_SetActiveChangesFlagsOnly ==
    [][\A r \in Reqs :
          (req[r].kind = "trip_set_active" /\ req'[r] # req[r]) =>
             \A t \in Trips : /\ trips'[t].exists = trips[t].exists
                              /\ trips'[t].capacity = trips[t].capacity]_vars

\* C24: a step of a request whose user is not staff changes no Trip (none
\* is created, edited, deleted, made active or inactive), changes no
\* registration's status or boarding flags and deletes no registration; all
\* it changes is the user's own account and profile, and the one row it adds
\* is a registration of that user.
C24_StaffOnlyWrites ==
    [][\A r \in Reqs :
          LET u == IF req[r].user # 0 THEN req[r].user ELSE req'[r].user
          IN  (req'[r] # req[r] /\ u \in Users /\ ~users[u].is_staff) =>
                 /\ trips' = trips
                 /\ nextTripId' = nextTripId
                 /\ \A g \in regs : \E h \in regs' :
                       /\ h.id = g.id
                       /\ h.status = g.status
                       /\ h.boarded_outbound = g.boarded_outbound
                       /\ h.boarded_return = g.boarded_return
                 /\ \A h \in regs' : (\A g \in regs : g.id # h.id) => h.user = u
                 /\ \A o \in Users \ {u} :
                       users'[o] = users[o] /\ profiles'[o] = profiles[o]]_vars

\* A user who is not staff has registered, and their request to delete a
\* registration that exists was sent to the login page.
C24_Witness ==
    \E r \in Reqs, g, h \in regs :
        /\ req[r].pc = "done" /\ req[r].kind = "registration_delete"
        /\ req[r].outcome = "LOGIN_REDIRECT"
        /\ ~users[req[r].user].is_staff
        /\ g.id = req[r].reg
        /\ h.user = req[r].user
        /\ profiles[req[r].user] # NoProfile
        /\ \E t \in Trips : trips[t].exists /\ trips[t].is_active

\* C25 (as claimed): whenever email_verified of a user is true, a token for
\* the user's current address was presented.  A step that takes
\* email_verified of a user from false to true is a step of a verify_email
\* request whose token names that user and the address the user has after
\* the step, and a step that changes the address of a user leaves
\* email_verified false, under any interleaving of verify_email with the
\* update-email action of resend_verification.
C25_VerifiedAddressWasVerified ==
    [][\A u \in Users :
          /\ (~users[u].email_verified /\ users'[u].email_verified) =>
                \E r \in Reqs :
                   /\ req[r].kind = "verify_email" /\ req'[r] # req[r]
                   /\ req[r].user = u
                   /\ req[r].new_email = users'[u].email
          /\ users'[u].email # users[u].email => ~users'[u].email_verified]_vars

\* C26 (as claimed): the rows of the headcount page without search text and
\* without only-unchecked are the registrations of the active trip that are
\* not cancelled, for every status the model allows (pending, confirmed,
\* cancelled): a registration that staff confirmed is listed, and a POST
\* goes on to save such a row when its checkbox differs from its flag.
C26_HeadcountCoversNotCancelled ==
    [][\A r \in Reqs :
          (/\ req[r].pc = "hc_list" /\ req[r].q = 0 /\ req[r].only = ""
           /\ req'[r] # req[r])
          => LET rows == {g \in regs : /\ g.trip = req[r].trip.id
                                       /\ g.status # "cancelled"}
                 flag(g) == IF req[r].mode = "out" THEN g.boarded_outbound
                                                   ELSE g.boarded_return
             IN  /\ req[r].method = "GET" =>
                       {w.reg : w \in req'[r].rows} = rows
                 /\ req[r].method = "POST" =>
                       req'[r].todo =
                          {g.id : g \in {g \in rows :
                                           flag(g) # (g.id \in req[r].post)}}]_vars

\* C27: after any signups and changes of address, concurrent ones included,
\* every stored user address is in lower case and no two users have the
\* same address.
C27_EmailsLowerAndUnique ==
    \A u \in Users : users[u] # NoUser =>
        /\ users[u].email > 0
        /\ \A o \in Users \ {u} :
              users[o] # NoUser => users[o].email # users[u].email

\* Two signups with the same address in different letter case ran
\* together: both passed the lookup of the form, one created the account,
\* the other was refused by the unique constraint.
C27_Witness ==
    \E r1, r2 \in Reqs :
        /\ req[r1].pc = "done" /\ req[r1].kind = "signup"
        /\ req[r1].outcome = "OK"
        /\ req[r2].pc = "done" /\ req[r2].kind = "signup"
        /\ req[r2].outcome = "IntegrityError"
        /\ \E e \in Emails : req[r1].post = {-e} /\ req[r2].post = {e}
        /\ users[req[r1].user] # NoUser
        /\ users[req[r1].user].email \in req[r2].post
        /\ \E u \in Users : users[u] = NoUser

=============================================================================
